---- MODULE Spec2Model ----
(***************************************************************************)
(* Castari SDK: the Connection Broker (src/src/server.ts) and the Session  *)
(* Manager (src/src/client.ts) as state machines.                          *)
(*                                                                         *)
(* Spec        the connection handshake of the broker: the token store,   *)
(*             POST /config, /ws, websocket open and close, the clock.     *)
(* InputSpec   the input side of the Stream Bridge: websocket message and  *)
(*             the drain loop (generateMessages).                          *)
(* OutputSpec  the output side of the Stream Bridge: the emit loop, the    *)
(*             stderr callback and the catch block of processMessages.     *)
(* ClientSpec  the client: CastariClient's constructor, start and stop.    *)
(*                                                                         *)
(* The broker actions are shared by the three broker specifications; each  *)
(* specification takes the handlers of its side and leaves the other       *)
(* side's variables unchanged.                                             *)
(***************************************************************************)
EXTENDS Integers, Sequences, FiniteSets, TLC

(***************************************************************************)
(* Bounds of the model.                                                    *)
(***************************************************************************)
\* tokens the broker issues (POST /config calls that succeed)
MaxTokens == 2
\* transports the broker upgrades
MaxSockets == 2
\* clock advances (each by 1 ms or by one TTL)
MaxTicks == 2
\* input messages received on transports
MaxMsgs == 2
\* events produced on the runtime side (sdk messages, stderr lines, an error)
MaxEvents == 2
\* stop() calls the caller makes
MaxStops == 2
\* registrations in this.messageHandlers at one time
MaxHandlers == 2
\* transport events delivered to the client
MaxInbound == 2
\* send() calls of the caller
MaxSends == 2

(***************************************************************************)
(* Program constants.                                                      *)
(***************************************************************************)
CONNECTION_TOKEN_TTL_MS == 5 * 60 * 1000

\* null for activeConnection / activeStream; the absent ?token= parameter
NoConn == 0
NoStream == 0
NoToken == 0
\* a token value the broker never issued
BogusToken == MaxTokens + 1

\* the session configurations a caller may POST
Configs == {"cfgA", "cfgB"}
\* queryConfig = {} at module load
EmptyConfig == "empty"

WsIds == 1..MaxSockets

VARIABLES
    \* ---- broker (server.ts) ----
    clock,              \* Date.now()
    ticks,              \* clock advances so far (bounds the model)
    queryConfig,        \* let queryConfig
    connectionTokens,   \* const connectionTokens: value -> [createdAt, used]
    issued,             \* token values generated so far (randomBytes never repeats)
    activeConnection,   \* let activeConnection
    wsState,            \* each transport: "none", "upgraded", "open", "closed"
    messageQueue,       \* const messageQueue
    activeStream,       \* let activeStream
    streamState,        \* the runtime stream: "none", "running", "ended"
    genpc,              \* generateMessages: "idle", "check", "sleep"
    received,           \* what the runtime got on its prompt channel
    nSubmitted,         \* input messages appended to messageQueue so far
    emitted,            \* what the runtime side produced: [kind, attached]
    sentLog,            \* every ws.send of the broker, in order: [ws, type, n]
    accepted,           \* per token value: how often validation returned true
    lastResp,           \* the last HTTP response: [op, token, status, ws]
    streamStarts,       \* how often query() was called
    maxBacklog,         \* most messages the drain loop found queued on waking
    \* ---- client (client.ts) ----
    opts,               \* this.options, with the environment folded in
    cpc,                \* where start() is
    attempt,            \* the loop variable of the configuration retry
    sandboxId,          \* this.sandboxId
    mode,               \* the ConnectionDetails: "none", "local", "proxy", "direct"
    cws,                \* this.ws: "none", "connecting", "open", "closed"
    results,            \* the outcome of each configuration POST, in order
    nPosts,             \* configuration POSTs sent
    nWaits,             \* 3-second waits taken
    nStarts,            \* sandbox/start requests sent
    stopReqs,           \* sandbox/stop requests sent: [sandboxId, delete],
                        \* each with the argument stop was called with
    nStopCalls,         \* stop() calls made by the caller
    failure,            \* the error start() threw, "none" if none
    platformResp,       \* what sandbox/start returned: which fields are present
    configReq,          \* the configuration POST last sent: [url, auth]
    wsReq,              \* the URL given to new WebSocket: [url, auth]
    messageHandlers,    \* this.messageHandlers
    handles,            \* functions for which onMessage returned a handle
    lastDispatch,       \* the handler calls of the last transport event
    nInbound,           \* transport events (messages, a failure) after open
    nSendCalls,         \* send() calls made by the caller
    transmitted,        \* this.ws.send calls made by send()
    lastSend            \* the last send() call: [ws, pc, outcome]

brokerVars == <<clock, ticks, queryConfig, connectionTokens, issued,
                activeConnection, wsState, messageQueue, activeStream,
                streamState, genpc, received, nSubmitted,
                emitted, sentLog, accepted, lastResp, streamStarts,
                maxBacklog>>

startVars == <<opts, cpc, attempt, sandboxId, mode, cws, results, nPosts,
               nWaits, nStarts, stopReqs, nStopCalls, failure>>

targetVars == <<platformResp, configReq, wsReq>>

sessionVars == <<messageHandlers, handles, lastDispatch, nInbound,
                 nSendCalls, transmitted, lastSend>>

clientVars == <<opts, cpc, attempt, sandboxId, mode, cws, results, nPosts,
                nWaits, nStarts, stopReqs, nStopCalls, failure, targetVars,
                sessionVars>>

vars == <<brokerVars, clientVars>>

(***************************************************************************)
(* Token store.                                                            *)
(***************************************************************************)
Restrict(m, S) == [v \in S |-> m[v]]

isExpired(token, now) == now - token.createdAt > CONNECTION_TOKEN_TTL_MS

\* a store that keeps the latest token only
generateConnectionToken_Latest(m, value, now) ==
    [v \in {value} |-> [createdAt |-> now, used |-> FALSE]]

generateConnectionToken(m, value, now) ==
    [v \in DOMAIN m \cup {value} |->
        IF v = value THEN [createdAt |-> now, used |-> FALSE] ELSE m[v]]

\* a sweep that leaves the used tokens in the store
cleanupTokens_ExpiredOnly(m, now) ==
    Restrict(m, {v \in DOMAIN m : ~isExpired(m[v], now)})

\* a sweep that forgets the TTL
cleanupTokens_UsedOnly(m, now) ==
    Restrict(m, {v \in DOMAIN m : ~m[v].used})

cleanupTokens(m, now) ==
    Restrict(m, {v \in DOMAIN m : ~(m[v].used \/ isExpired(m[v], now))})

\* a validation that accepts without marking the token used
validateAndUseToken_NoMark(m, value, now1, now2) ==
    LET c == cleanupTokens(m, now1) IN
    IF value = NoToken THEN [ok |-> FALSE, store |-> c]
    ELSE IF value \notin DOMAIN c THEN [ok |-> FALSE, store |-> c]
    ELSE IF c[value].used \/ isExpired(c[value], now2)
         THEN [ok |-> FALSE, store |-> Restrict(c, DOMAIN c \ {value})]
    ELSE [ok |-> TRUE, store |-> c]

\* now1 is the Date.now() of cleanupTokens, now2 the one of line 75
validateAndUseToken(m, value, now1, now2) ==
    LET c == cleanupTokens(m, now1) IN
    IF value = NoToken THEN [ok |-> FALSE, store |-> c]
    ELSE IF value \notin DOMAIN c THEN [ok |-> FALSE, store |-> c]
    ELSE IF c[value].used \/ isExpired(c[value], now2)
         THEN [ok |-> FALSE, store |-> Restrict(c, DOMAIN c \ {value})]
    ELSE [ok |-> TRUE, store |-> [c EXCEPT ![value].used = TRUE]]

(***************************************************************************)
(* Sending on a transport.                                                 *)
(***************************************************************************)
Send(log, ws, type, n) == Append(log, [ws |-> ws, type |-> type, n |-> n])

\* a send that does not look at activeConnection
SendIfActive_Always(log, conn, type, n) == Send(log, conn, type, n)

\* if (activeConnection) activeConnection.send(...)
SendIfActive(log, conn, type, n) ==
    IF conn # NoConn THEN Send(log, conn, type, n) ELSE log

\* the transport that is attached when the runtime side produces something
Attached == IF activeConnection # NoConn /\ wsState[activeConnection] = "open"
            THEN activeConnection ELSE NoConn

FreeWs == {w \in WsIds : wsState[w] = "none"}
NewWs == CHOOSE w \in FreeWs : \A x \in FreeWs : w <= x

Resp(op, token, status, ws) ==
    [op |-> op, token |-> token, status |-> status, ws |-> ws]

(***************************************************************************)
(* The client: construction.                                               *)
(***************************************************************************)
\* const maxConfigAttempts
maxConfigAttempts == 5
\* this.sandboxId undefined
NoSandbox == 0

\* each option as present or absent, after the fallback to the environment
Options ==
    [anthropicApiKey : BOOLEAN, connectionUrl : BOOLEAN,
     clientId : BOOLEAN, useProxy : BOOLEAN]

\* the fields of the sandbox/start response that may be absent
PlatformResponses ==
    [proxyUrl : BOOLEAN, authHeaders : BOOLEAN, authParams : BOOLEAN]
\* no sandbox/start response received
NoResponse == [proxyUrl |-> FALSE, authHeaders |-> FALSE, authParams |-> FALSE]
\* no request made
NoRequest == [url |-> "none", auth |-> "none"]
\* send() not called
NoSend == [ws |-> "none", pc |-> "none", outcome |-> "none"]
\* the functions the caller registers
Handlers == {"f", "g"}

\* before new CastariClient(options)
ClientInit ==
    /\ opts = [anthropicApiKey |-> FALSE, connectionUrl |-> FALSE,
               clientId |-> FALSE, useProxy |-> FALSE]
    /\ cpc = "new"
    /\ attempt = 0
    /\ sandboxId = NoSandbox
    /\ mode = "none"
    /\ cws = "none"
    /\ results = <<>>
    /\ nPosts = 0
    /\ nWaits = 0
    /\ nStarts = 0
    /\ stopReqs = <<>>
    /\ nStopCalls = 0
    /\ failure = "none"
    /\ platformResp = NoResponse
    /\ configReq = NoRequest
    /\ wsReq = NoRequest
    /\ messageHandlers = <<>>
    /\ handles = {}
    /\ lastDispatch = <<>>
    /\ nInbound = 0
    /\ nSendCalls = 0
    /\ transmitted = 0
    /\ lastSend = NoSend

(***************************************************************************)
(* Initial state: module load of server.ts, serve() running; a client      *)
(* constructed.                                                            *)
(***************************************************************************)
Init ==
    /\ clock = 0
    /\ ticks = 0
    /\ queryConfig = EmptyConfig
    /\ connectionTokens = <<>>
    /\ issued = 0
    /\ activeConnection = NoConn
    /\ wsState = [w \in WsIds |-> "none"]
    /\ messageQueue = <<>>
    /\ activeStream = NoStream
    /\ streamState = "none"
    /\ genpc = "idle"
    /\ received = <<>>
    /\ nSubmitted = 0
    /\ emitted = <<>>
    /\ sentLog = <<>>
    /\ accepted = [v \in 1..BogusToken |-> 0]
    /\ lastResp = Resp("none", NoToken, 0, NoConn)
    /\ streamStarts = 0
    /\ maxBacklog = 0
    /\ ClientInit

(***************************************************************************)
(* The clock.                                                              *)
(***************************************************************************)
Tick ==
    /\ ticks < MaxTicks
    /\ \E d \in {1, CONNECTION_TOKEN_TTL_MS} : clock' = clock + d
    /\ ticks' = ticks + 1
    /\ UNCHANGED <<maxBacklog, clientVars>>
    /\ UNCHANGED <<queryConfig, connectionTokens, issued, activeConnection,
                   wsState, messageQueue, activeStream, streamState, genpc, received, nSubmitted, emitted,
                   sentLog, accepted, lastResp, streamStarts>>

(***************************************************************************)
(* POST /config                                                            *)
(***************************************************************************)
Configure ==
    /\ issued < MaxTokens
    /\ \E config \in Configs :
        /\ queryConfig' = config
        /\ issued' = issued + 1
        /\ connectionTokens' =
               generateConnectionToken(connectionTokens, issued + 1, clock)
        /\ lastResp' = Resp("config", issued + 1, 200, NoConn)
    /\ UNCHANGED <<maxBacklog, clientVars>>
    /\ UNCHANGED <<clock, ticks, activeConnection, wsState, messageQueue,
                   activeStream, streamState, genpc, received,
                   nSubmitted, emitted, sentLog, accepted, streamStarts>>

\* req.json() throws: 400, nothing stored, no token issued
ConfigureInvalid ==
    /\ lastResp' = Resp("config", NoToken, 400, NoConn)
    /\ UNCHANGED <<maxBacklog, clientVars>>
    /\ UNCHANGED <<clock, ticks, queryConfig, connectionTokens, issued,
                   activeConnection, wsState, messageQueue, activeStream,
                   streamState, genpc, received, nSubmitted,
                   emitted, sentLog, accepted, streamStarts>>

(***************************************************************************)
(* /ws : validate the token, check the singleton, upgrade.                 *)
(***************************************************************************)
\* a handler without the active-connection check
UpgradeStatus_NoConflict(ok, conn, isWsRequest) ==
    IF ~ok THEN 401
    ELSE IF isWsRequest THEN 101
    ELSE 404

\* a handler that answers a conflict like a bad token
UpgradeStatus_Unauthorized(ok, conn, isWsRequest) ==
    IF ~ok \/ conn # NoConn THEN 401
    ELSE IF isWsRequest THEN 101
    ELSE 404

\* a handler that checks the active connection before the token
UpgradeStatus_ConflictFirst(ok, conn, isWsRequest) ==
    IF conn # NoConn THEN 409
    ELSE IF ~ok THEN 401
    ELSE IF isWsRequest THEN 101
    ELSE 404

\* the response of the /ws branch of fetch; 101 stands for the upgrade
UpgradeStatus(ok, conn, isWsRequest) ==
    IF ~ok THEN 401
    ELSE IF conn # NoConn THEN 409
    ELSE IF isWsRequest THEN 101
    ELSE 404

\* one request: the presented token, the clock advance between the two
\* Date.now() reads of the validation, whether it asks for a WebSocket
UpgradeReq(value, drift, isWsRequest) ==
    LET r == validateAndUseToken(connectionTokens, value,
                                 clock, clock + drift)
        status == UpgradeStatus(r.ok, activeConnection, isWsRequest)
    IN
    /\ UNCHANGED <<queryConfig, issued, activeConnection, messageQueue,
                   activeStream, streamState, genpc, received, nSubmitted,
                   emitted, sentLog, streamStarts>>
    /\ UNCHANGED <<maxBacklog, clientVars>>
    /\ drift = 1 => ticks < MaxTicks
    /\ clock' = clock + drift
    /\ ticks' = ticks + drift
    /\ status = 101 => FreeWs # {}
    /\ connectionTokens' = r.store
    /\ accepted' = IF r.ok THEN [accepted EXCEPT ![value] = @ + 1]
                   ELSE accepted
    /\ IF status = 101
       THEN /\ wsState' = [wsState EXCEPT ![NewWs] = "upgraded"]
            /\ lastResp' = Resp("ws", value, status, NewWs)
       ELSE /\ wsState' = wsState
            /\ lastResp' = Resp("ws", value, status, NoConn)

\* any request: no token, an issued token, a token never issued
Upgrade ==
    \E value \in (0..issued) \cup {BogusToken},
       drift \in {0, 1},
       isWsRequest \in BOOLEAN :
        UpgradeReq(value, drift, isWsRequest)

\* a WebSocket request of a client that presents a token it was issued
UpgradeIssued ==
    \E value \in 1..issued : UpgradeReq(value, 0, TRUE)

(***************************************************************************)
(* websocket.open                                                          *)
(***************************************************************************)
\* an open handler that starts the runtime on every connection
StartsStream_Always(stream) == TRUE

\* if (!activeStream) processMessages(options): up to its first await
StartsStream(stream) == stream = NoStream

Open(ws) ==
    /\ wsState[ws] = "upgraded"
    /\ wsState' = [wsState EXCEPT ![ws] = "open"]
    /\ activeConnection' = ws
    /\ IF StartsStream(activeStream)
       THEN /\ activeStream' = 1
            /\ streamState' = "running"
            /\ streamStarts' = streamStarts + 1
            /\ genpc' = "check"
       ELSE UNCHANGED <<activeStream, streamState, streamStarts, genpc>>
    /\ sentLog' = Send(sentLog, ws, "connected", 0)
    /\ UNCHANGED <<maxBacklog, clientVars>>
    /\ UNCHANGED <<clock, ticks, queryConfig, connectionTokens, issued,
                   messageQueue, received, nSubmitted, emitted, accepted,
                   lastResp>>

(***************************************************************************)
(* websocket.close                                                         *)
(***************************************************************************)
\* a close handler that clears the reference whichever transport closed
ActiveAfterClose_Clear(conn, ws) == NoConn

\* a close handler that forgets to clear the reference
ActiveAfterClose_Keep(conn, ws) == conn

ActiveAfterClose(conn, ws) == IF conn = ws THEN NoConn ELSE conn

Close(ws) ==
    /\ wsState[ws] = "open"
    /\ wsState' = [wsState EXCEPT ![ws] = "closed"]
    /\ activeConnection' = ActiveAfterClose(activeConnection, ws)
    /\ UNCHANGED <<maxBacklog, clientVars>>
    /\ UNCHANGED <<clock, ticks, queryConfig, connectionTokens, issued,
                   messageQueue, activeStream, streamState,
                   genpc, received, nSubmitted, emitted, sentLog, accepted,
                   lastResp, streamStarts>>

(***************************************************************************)
(* websocket.message -> handleMessage: a user message is appended to the   *)
(* Input Queue.                                                            *)
(***************************************************************************)
Enqueue(q, m) == Append(q, m)

Message(ws) ==
    /\ wsState[ws] = "open"
    /\ nSubmitted < MaxMsgs
    /\ nSubmitted' = nSubmitted + 1
    /\ messageQueue' = Enqueue(messageQueue, nSubmitted + 1)
    /\ UNCHANGED <<maxBacklog, clientVars>>
    /\ UNCHANGED <<clock, ticks, queryConfig, connectionTokens, issued,
                   activeConnection, wsState, activeStream, streamState, genpc, received, emitted, sentLog, accepted,
                   lastResp, streamStarts>>

(***************************************************************************)
(* generateMessages: the drain loop, pulled by the runtime.                *)
(***************************************************************************)
\* pop() in place of shift(): the newest message first
Shifted_Last(q) == q[Len(q)]

\* messageQueue.shift()
Shifted(q) == Head(q)
AfterShift(q) == Tail(q)

\* one turn of the inner while loop: shift and yield
Drain ==
    /\ streamState = "running"
    /\ genpc = "check"
    /\ Len(messageQueue) > 0
    /\ received' = Append(received, Shifted(messageQueue))
    /\ messageQueue' = AfterShift(messageQueue)
    /\ UNCHANGED <<maxBacklog, clientVars>>
    /\ UNCHANGED <<clock, ticks, queryConfig, connectionTokens, issued,
                   activeConnection, wsState, activeStream, streamState, genpc, nSubmitted, emitted, sentLog,
                   accepted, lastResp, streamStarts>>

\* the queue is empty: await the 10 ms timer
DrainSleep ==
    /\ streamState = "running"
    /\ genpc = "check"
    /\ Len(messageQueue) = 0
    /\ genpc' = "sleep"
    /\ UNCHANGED <<maxBacklog, clientVars>>
    /\ UNCHANGED <<clock, ticks, queryConfig, connectionTokens, issued,
                   activeConnection, wsState, messageQueue, activeStream,
                   streamState, received, nSubmitted, emitted,
                   sentLog, accepted, lastResp, streamStarts>>

\* the timer fires: back to the outer while (true)
DrainWake ==
    /\ streamState = "running"
    /\ genpc = "sleep"
    /\ genpc' = "check"
    /\ maxBacklog' = IF Len(messageQueue) > maxBacklog
                     THEN Len(messageQueue) ELSE maxBacklog
    /\ UNCHANGED clientVars
    /\ UNCHANGED <<clock, ticks, queryConfig, connectionTokens, issued,
                   activeConnection, wsState, messageQueue, activeStream,
                   streamState, received, nSubmitted, emitted,
                   sentLog, accepted, lastResp, streamStarts>>

(***************************************************************************)
(* processMessages: the emit loop, the stderr callback, the catch block.   *)
(***************************************************************************)
Produce(kind) == Append(emitted, [kind |-> kind, attached |-> Attached])

\* for await (const message of activeStream) { if (activeConnection) send }
Emit ==
    /\ streamState = "running"
    /\ Len(emitted) < MaxEvents
    /\ emitted' = Produce("sdk_message")
    /\ sentLog' = SendIfActive(sentLog, activeConnection, "sdk_message",
                               Len(emitted) + 1)
    /\ UNCHANGED <<maxBacklog, clientVars>>
    /\ UNCHANGED <<clock, ticks, queryConfig, connectionTokens, issued,
                   activeConnection, wsState, messageQueue, activeStream,
                   streamState, genpc, received, nSubmitted,
                   accepted, lastResp, streamStarts>>

\* options.stderr
Stderr ==
    /\ streamState = "running"
    /\ Len(emitted) < MaxEvents
    /\ emitted' = Produce("info")
    /\ sentLog' = SendIfActive(sentLog, activeConnection, "info",
                               Len(emitted) + 1)
    /\ UNCHANGED <<maxBacklog, clientVars>>
    /\ UNCHANGED <<clock, ticks, queryConfig, connectionTokens, issued,
                   activeConnection, wsState, messageQueue, activeStream,
                   streamState, genpc, received, nSubmitted,
                   accepted, lastResp, streamStarts>>

\* a processMessages that clears the reference when it returns
StreamAfterEnd_Cleared(stream) == NoStream

\* processMessages returns: nothing assigns activeStream
StreamAfterEnd(stream) == stream

\* the stream throws: catch, report, processMessages returns
StreamError ==
    /\ streamState = "running"
    /\ Len(emitted) < MaxEvents
    /\ streamState' = "ended"
    /\ activeStream' = StreamAfterEnd(activeStream)
    /\ emitted' = Produce("error")
    /\ sentLog' = SendIfActive(sentLog, activeConnection, "error",
                               Len(emitted) + 1)
    /\ UNCHANGED <<maxBacklog, clientVars>>
    /\ UNCHANGED <<clock, ticks, queryConfig, connectionTokens, issued,
                   activeConnection, wsState, messageQueue, genpc, received,
                   nSubmitted, accepted, lastResp, streamStarts>>

\* the event sequence finishes: the for await loop ends
StreamDone ==
    /\ streamState = "running"
    /\ streamState' = "ended"
    /\ activeStream' = StreamAfterEnd(activeStream)
    /\ UNCHANGED <<maxBacklog, clientVars>>
    /\ UNCHANGED <<clock, ticks, queryConfig, connectionTokens, issued,
                   activeConnection, wsState, messageQueue, genpc, received,
                   nSubmitted, emitted, sentLog, accepted, lastResp,
                   streamStarts>>

(***************************************************************************)
(* The connection handshake: any client, any request, and the clock.       *)
(***************************************************************************)
Next ==
    \/ Tick
    \/ Configure
    \/ ConfigureInvalid
    \/ Upgrade
    \/ \E ws \in WsIds : Open(ws)
    \/ \E ws \in WsIds : Close(ws)

Spec == Init /\ [][Next]_vars

(***************************************************************************)
(* Properties of the connection handshake (checked under Spec).            *)
(***************************************************************************)
\* the presented value names a stored token that is unused and, at the
\* time `now`, not older than the TTL
ValidAt(value, now) ==
    /\ value \in DOMAIN connectionTokens
    /\ ~connectionTokens[value].used
    /\ now - connectionTokens[value].createdAt <= CONNECTION_TOKEN_TTL_MS

\* C1: for any token issued by Configure, validation returns true at most
\* once over any sequence of issue, validation and clock-advance steps.
C1_SingleUse == \A t \in 1..issued : accepted[t] <= 1

\* a token that was accepted once has been presented again and rejected
C1_Witness ==
    /\ lastResp.op = "ws"
    /\ lastResp.token \in 1..issued
    /\ lastResp.status = 401
    /\ accepted[lastResp.token] = 1

\* the step is the /ws request that presented lastResp'.token, with the
\* clock advancing by clock' - clock between the two Date.now() reads
IsUpgradeStep(isWs) ==
    /\ lastResp'.op = "ws"
    /\ clock' - clock \in {0, 1}
    /\ UpgradeReq(lastResp'.token, clock' - clock, isWs)

\* C2: a token older than the TTL is rejected even if never consumed, and
\* the next validation attempt removes it from the store whichever value
\* that attempt presents.
C2_Expiry ==
    [][\A isWs \in BOOLEAN :
        IsUpgradeStep(isWs) =>
            \A t \in DOMAIN connectionTokens :
                clock - connectionTokens[t].createdAt > CONNECTION_TOKEN_TTL_MS
                => /\ t \notin DOMAIN connectionTokens'
                   /\ lastResp'.token = t => lastResp'.status = 401]_vars

\* a token that was never accepted is gone from the store after a request
\* that presented another value
C2_Witness ==
    /\ lastResp.op = "ws"
    /\ \E t \in 1..issued :
        /\ t # lastResp.token
        /\ accepted[t] = 0
        /\ t \notin DOMAIN connectionTokens
        /\ clock > CONNECTION_TOKEN_TTL_MS

OpenTransports == {w \in WsIds : wsState[w] = "open"}

\* C3: in every reachable state at most one transport is live; two upgrade
\* requests that both passed the active-connection check before either
\* open handler ran do not both end up as live transports.
C3_SingletonTransport == Cardinality(OpenTransports) <= 1

\* C4 as stated: while a transport is active every upgrade attempt gets 409,
\* whatever token it presents.
C4_AlwaysConflict ==
    [][\A isWs \in BOOLEAN :
        (activeConnection # NoConn /\ IsUpgradeStep(isWs))
            => lastResp'.status = 409]_vars

\* C4 as amended: while a transport is active no upgrade attempt is
\* accepted: one with a valid token gets 409, every other one gets 401.
C4_RejectedWhileActive ==
    [][\A isWs \in BOOLEAN :
        (activeConnection # NoConn /\ IsUpgradeStep(isWs))
            => /\ lastResp'.status =
                      IF ValidAt(lastResp'.token, clock') THEN 409 ELSE 401
               /\ wsState' = wsState
               /\ activeConnection' = activeConnection]_vars

\* an upgrade attempt was answered 409 while a transport is open and active
C4_Witness ==
    /\ activeConnection # NoConn
    /\ wsState[activeConnection] = "open"
    /\ lastResp.op = "ws"
    /\ lastResp.status = 409

\* the first message the broker sent on transport ws, if any
FirstSent(ws) ==
    LET on == SelectSeq(sentLog, LAMBDA e : e.ws = ws) IN
    IF Len(on) = 0 THEN "nothing" ELSE on[1].type

\* C5: an upgrade request gets 401 when its token is absent, unknown,
\* expired or consumed, 409 when the token is valid and a transport is
\* active, and is upgraded otherwise; the open handler makes the new
\* transport the active connection, and the first message on a transport
\* is `connected`.
C5_UpgradeOutcome ==
    /\ [][IsUpgradeStep(TRUE) =>
            /\ lastResp'.status =
                   IF ~ValidAt(lastResp'.token, clock') THEN 401
                   ELSE IF activeConnection # NoConn THEN 409
                   ELSE 101
            /\ lastResp'.status = 101 <=>
                   (\E w \in WsIds : /\ wsState[w] = "none"
                                     /\ wsState'[w] = "upgraded"
                                     /\ lastResp'.ws = w)]_vars
    /\ [][\A w \in WsIds : Open(w) => activeConnection' = w]_vars
    /\ [](\A w \in WsIds :
            /\ wsState[w] \in {"open", "closed"} => FirstSent(w) = "connected"
            /\ wsState[w] \in {"none", "upgraded"} => FirstSent(w) = "nothing")

\* an upgrade was accepted, its transport opened and became the active
\* connection, after an earlier request had been refused
C5_Witness ==
    /\ lastResp.op = "ws"
    /\ lastResp.status = 101
    /\ activeConnection = lastResp.ws
    /\ FirstSent(lastResp.ws) = "connected"
    /\ \E t \in 1..issued : t \notin DOMAIN connectionTokens /\ accepted[t] = 0

(***************************************************************************)
(* The input side of the Stream Bridge: well-behaved clients connect and   *)
(* send input messages, the drain loop forwards them while the runtime     *)
(* stream runs.                                                            *)
(***************************************************************************)
InputNext ==
    \/ Configure
    \/ UpgradeIssued
    \/ \E ws \in WsIds : Open(ws)
    \/ \E ws \in WsIds : Close(ws)
    \/ \E ws \in WsIds : Message(ws)
    \/ Drain
    \/ DrainSleep
    \/ DrainWake
    \/ StreamDone

InputSpec == Init /\ [][InputNext]_vars

\* C6: the input messages appended to the Input Queue reach the runtime's
\* prompt channel in submission order, each once, none merged or dropped:
\* what the runtime received followed by what is still queued is exactly
\* what was submitted, in order.
C6_FifoInput ==
    received \o messageQueue = [i \in 1..nSubmitted |-> i]

\* the drain loop woke up to find two messages queued, and both have been
\* forwarded
C6_Witness ==
    /\ maxBacklog >= 2
    /\ received = <<1, 2>>
    /\ messageQueue = <<>>

(***************************************************************************)
(* The output side of the Stream Bridge: well-behaved clients connect and  *)
(* disconnect while the runtime stream emits.                              *)
(***************************************************************************)
OutputNext ==
    \/ Configure
    \/ UpgradeIssued
    \/ \E ws \in WsIds : Open(ws)
    \/ \E ws \in WsIds : Close(ws)
    \/ Emit
    \/ Stderr
    \/ StreamError
    \/ StreamDone

OutputSpec == Init /\ [][OutputNext]_vars

\* the runtime events with the transport that was attached at emission
Indexed ==
    [i \in 1..Len(emitted) |->
        [ws |-> emitted[i].attached, type |-> emitted[i].kind, n |-> i]]

IsEvent(e) == e.type = "sdk_message"
IsDeliverable(e) == e.type = "sdk_message" /\ e.ws # NoConn

\* C7: the runtime events sent to transports are, in emission order, exactly
\* the events emitted while a transport was attached, each sent once to
\* that transport; an event emitted with no transport attached is sent to
\* no later transport.
C7_OrderedOutput ==
    SelectSeq(sentLog, IsEvent) = SelectSeq(Indexed, IsDeliverable)

\* an event was dropped while no transport was attached, and a later event
\* was delivered to a transport that connected afterwards
C7_Witness ==
    /\ Len(emitted) >= 2
    /\ emitted[1].kind = "sdk_message" /\ emitted[1].attached = NoConn
    /\ emitted[2].kind = "sdk_message" /\ emitted[2].attached # NoConn
    /\ \E k \in 1..Len(sentLog) :
        sentLog[k].type = "sdk_message" /\ sentLog[k].n = 2

Opened == {w \in WsIds : wsState[w] \in {"open", "closed"}}

\* C8: the runtime stream is started at most once per broker process, by
\* the first transport open; a later open starts no stream.
C8_StartedOnce ==
    /\ streamStarts <= 1
    /\ streamStarts = 1 <=> Opened # {}
    /\ activeStream # NoStream <=> streamStarts = 1

\* a second transport opened after the first one closed, the one stream
\* started by the first open is still running and has emitted through the
\* second transport
C8_Witness ==
    /\ wsState[1] = "closed"
    /\ wsState[2] = "open"
    /\ streamStarts = 1
    /\ streamState = "running"
    /\ \E k \in 1..Len(sentLog) :
        sentLog[k].type = "sdk_message" /\ sentLog[k].ws = 2


(***************************************************************************)
(* CastariClient: constructor, start, stop and the transport's events.     *)
(***************************************************************************)
\* the values stop() may be called with: no argument, { delete: true },
\* { delete: false }, {}
StopArgs == {"noarg", "true", "false", "empty"}

\* options.delete under the default parameter { delete: true }
DeleteFlag(arg) ==
    CASE arg = "noarg" -> "true"
      [] arg = "true" -> "true"
      [] arg = "false" -> "false"
      [] OTHER -> "undefined"

\* the body of stop(): close the transport, ask the platform to stop
StopWs(w) == IF w # "none" THEN "closed" ELSE w
StopRequests(reqs, id, arg) ==
    IF id # NoSandbox
    THEN Append(reqs, [sandboxId |-> id, delete |-> DeleteFlag(arg),
                       arg |-> arg])
    ELSE reqs

\* connection.cleanup is defined by setupPlatformConnection only
HasCleanup(m) == m \in {"proxy", "direct"}

Construct ==
    /\ cpc = "new"
    /\ \E o \in Options : opts' = o
    /\ cpc' = "idle"
    /\ UNCHANGED <<attempt, sandboxId, mode, cws, results, nPosts, nWaits,
                   nStarts, stopReqs, nStopCalls, failure>>
    /\ UNCHANGED <<brokerVars, targetVars, sessionVars>>

\* a start() without the credential check
HasCredential_Unchecked(o) == TRUE

\* const anthropicApiKey = this.options.anthropicApiKey || process.env...
HasCredential(o) == o.anthropicApiKey

\* a start() that always goes to the platform
IsLocalMode_Never(o) == FALSE

\* this.options.connectionUrl ? setupLocalConnection : setupPlatformConnection
IsLocalMode(o) == o.connectionUrl

\* start(), up to the first request
StartCall ==
    /\ cpc = "idle"
    /\ IF ~HasCredential(opts)
       THEN /\ cpc' = "failed"
            /\ failure' = "credential"
            /\ UNCHANGED <<mode, attempt, nStarts>>
       ELSE IF IsLocalMode(opts)
       THEN /\ mode' = "local"
            /\ attempt' = 1
            /\ cpc' = "post"
            /\ UNCHANGED <<failure, nStarts>>
       ELSE IF ~opts.clientId
       THEN /\ cpc' = "failed"
            /\ failure' = "clientId"
            /\ UNCHANGED <<mode, attempt, nStarts>>
       ELSE /\ nStarts' = nStarts + 1
            /\ cpc' = "provisioning"
            /\ UNCHANGED <<mode, attempt, failure>>
    /\ UNCHANGED <<opts, sandboxId, cws, results, nPosts, nWaits, stopReqs,
                   nStopCalls>>
    /\ UNCHANGED <<brokerVars, targetVars, sessionVars>>

\* proxy mode whenever it is enabled, whatever the platform returned
ProxySubMode_Enabled(useProxy, hasProxyUrl) == useProxy

\* if (useProxy && proxyUrl)
ProxySubMode(useProxy, hasProxyUrl) == useProxy /\ hasProxyUrl

\* authHeaders / authParams as returned by the platform, or undefined
Returned(present) == IF present THEN "returned" ELSE "none"

\* the ConnectionDetails of each mode
ConnectionDetails(m, resp) ==
    CASE m = "local" ->
            [configUrl |-> "connectionUrl/config", wsUrl |-> "connectionUrl/ws",
             authHeaders |-> "none", authParams |-> "none"]
      [] m = "proxy" ->
            [configUrl |-> "platform/proxy/id/config", wsUrl |-> "proxyUrl",
             authHeaders |-> "none", authParams |-> "none"]
      [] m = "direct" ->
            [configUrl |-> "sandbox/config", wsUrl |-> "sandbox/ws",
             authHeaders |-> Returned(resp.authHeaders),
             authParams |-> Returned(resp.authParams)]
      [] OTHER ->
            [configUrl |-> "none", wsUrl |-> "none",
             authHeaders |-> "none", authParams |-> "none"]

\* the platform answers sandbox/start
SandboxStarted ==
    /\ cpc = "provisioning"
    /\ \E ok \in BOOLEAN, resp \in PlatformResponses :
        IF ~ok
        THEN /\ cpc' = "failed"
             /\ failure' = "sandbox"
             /\ UNCHANGED <<sandboxId, mode, attempt, platformResp>>
        ELSE /\ sandboxId' = 1
             /\ platformResp' = resp
             /\ mode' = IF ProxySubMode(opts.useProxy, resp.proxyUrl)
                        THEN "proxy" ELSE "direct"
             /\ attempt' = 1
             /\ cpc' = "post"
             /\ UNCHANGED failure
    /\ UNCHANGED <<opts, cws, results, nPosts, nWaits, nStarts, stopReqs,
                   nStopCalls, configReq, wsReq>>
    /\ UNCHANGED <<brokerVars, sessionVars>>

\* a retry loop with one attempt too many
LoopContinues_OneMore(a) == a <= maxConfigAttempts + 1

\* for (...; attempt <= maxConfigAttempts; ...)
LoopContinues(a) == a <= maxConfigAttempts

\* if (attempt < maxConfigAttempts) await the 3 s timer
WaitsAfter(a) == a < maxConfigAttempts

\* the loop body up to the await of fetch
ConfigPost ==
    /\ cpc = "post"
    /\ nPosts' = nPosts + 1
    /\ configReq' = [url |-> ConnectionDetails(mode, platformResp).configUrl,
                     auth |-> ConnectionDetails(mode, platformResp).authHeaders]
    /\ cpc' = "await"
    /\ UNCHANGED <<opts, attempt, sandboxId, mode, cws, results, nWaits,
                   nStarts, stopReqs, nStopCalls, failure, platformResp,
                   wsReq>>
    /\ UNCHANGED <<brokerVars, sessionVars>>

\* attempt++ and the loop test
AfterAttempt(a) == IF LoopContinues(a + 1) THEN "post" ELSE "exhausted"

\* the POST settles: a success status, another status, a network failure
ConfigResultOf(r) ==
    /\ cpc = "await"
    /\ results' = Append(results, r)
    /\ IF r = "ok"
       THEN /\ cpc' = "json"
            /\ UNCHANGED <<attempt, nWaits>>
       ELSE IF WaitsAfter(attempt)
       THEN /\ cpc' = "wait"
            /\ nWaits' = nWaits + 1
            /\ UNCHANGED attempt
       ELSE /\ cpc' = AfterAttempt(attempt)
            /\ attempt' = attempt + 1
            /\ UNCHANGED nWaits
    /\ UNCHANGED <<opts, sandboxId, mode, cws, nPosts, nStarts, stopReqs,
                   nStopCalls, failure>>
    /\ UNCHANGED <<brokerVars, targetVars, sessionVars>>

ConfigResult == \E r \in {"ok", "status", "network"} : ConfigResultOf(r)

\* the POST of a reachable broker: a success status at the first attempt
ConfigAccepted == ConfigResultOf("ok")

\* the 3 s timer fires
WaitDone ==
    /\ cpc = "wait"
    /\ cpc' = AfterAttempt(attempt)
    /\ attempt' = attempt + 1
    /\ UNCHANGED <<opts, sandboxId, mode, cws, results, nPosts, nWaits,
                   nStarts, stopReqs, nStopCalls, failure>>
    /\ UNCHANGED <<brokerVars, targetVars, sessionVars>>

\* if (!configResponse || !configResponse.ok): cleanup, then throw
Exhausted ==
    /\ cpc = "exhausted"
    /\ IF HasCleanup(mode)
       THEN /\ stopReqs' = StopRequests(stopReqs, sandboxId, "true")
            /\ cws' = StopWs(cws)
            /\ cpc' = "cleanup"
            /\ failure' = "configure"
       ELSE /\ cpc' = "failed"
            /\ failure' = "configure"
            /\ UNCHANGED <<stopReqs, cws>>
    /\ UNCHANGED <<opts, attempt, sandboxId, mode, results, nPosts, nWaits,
                   nStarts, nStopCalls>>
    /\ UNCHANGED <<brokerVars, targetVars, sessionVars>>

\* await configResponse.json() and the token check; with a token, new WebSocket
ConfigBody ==
    /\ cpc = "json"
    /\ \E body \in {"token", "noToken", "unparsable"} :
        CASE body = "token" ->
                /\ cws' = "connecting"
                /\ wsReq' = [url |-> ConnectionDetails(mode, platformResp).wsUrl,
                             auth |-> ConnectionDetails(mode, platformResp).authParams]
                /\ cpc' = "connecting"
                /\ UNCHANGED <<stopReqs, failure>>
          [] body = "noToken" ->
                IF HasCleanup(mode)
                THEN /\ stopReqs' = StopRequests(stopReqs, sandboxId, "true")
                     /\ cws' = StopWs(cws)
                     /\ cpc' = "cleanup"
                     /\ failure' = "noToken"
                     /\ UNCHANGED wsReq
                ELSE /\ cpc' = "failed"
                     /\ failure' = "noToken"
                     /\ UNCHANGED <<stopReqs, cws, wsReq>>
          [] OTHER ->
                /\ cpc' = "failed"
                /\ failure' = "parse"
                /\ UNCHANGED <<stopReqs, cws, wsReq>>
    /\ UNCHANGED <<opts, attempt, sandboxId, mode, results, nPosts, nWaits,
                   nStarts, nStopCalls, platformResp, configReq>>
    /\ UNCHANGED <<brokerVars, sessionVars>>

\* the stop request of the cleanup settles: start() throws
CleanupDone ==
    /\ cpc = "cleanup"
    /\ cpc' = "failed"
    /\ UNCHANGED <<opts, attempt, sandboxId, mode, cws, results, nPosts,
                   nWaits, nStarts, stopReqs, nStopCalls, failure>>
    /\ UNCHANGED <<brokerVars, targetVars, sessionVars>>

\* ws.onopen: resolve()
WsOpen ==
    /\ cws = "connecting"
    /\ cws' = "open"
    /\ cpc' = IF cpc = "connecting" THEN "started" ELSE cpc
    /\ UNCHANGED <<opts, attempt, sandboxId, mode, results, nPosts, nWaits,
                   nStarts, stopReqs, nStopCalls, failure>>
    /\ UNCHANGED <<brokerVars, targetVars, sessionVars>>

\* ws.onerror while connecting: reject(error)
WsError ==
    /\ cws = "connecting"
    /\ cws' = "closed"
    /\ IF cpc = "connecting"
       THEN cpc' = "failed" /\ failure' = "transport"
       ELSE UNCHANGED <<cpc, failure>>
    /\ UNCHANGED <<opts, attempt, sandboxId, mode, results, nPosts, nWaits,
                   nStarts, stopReqs, nStopCalls>>
    /\ UNCHANGED <<brokerVars, targetVars, sessionVars>>

\* ws.onclose
WsClose ==
    /\ cws = "open"
    /\ cws' = "closed"
    /\ UNCHANGED <<opts, cpc, attempt, sandboxId, mode, results, nPosts,
                   nWaits, nStarts, stopReqs, nStopCalls, failure>>
    /\ UNCHANGED <<brokerVars, targetVars, sessionVars>>

\* the caller calls stop(arg) once start() has settled
StopOf(arg) ==
    /\ cpc \in {"started", "failed"}
    /\ nStopCalls < MaxStops
    /\ nStopCalls' = nStopCalls + 1
    /\ stopReqs' = StopRequests(stopReqs, sandboxId, arg)
    /\ cws' = StopWs(cws)
    /\ UNCHANGED <<opts, cpc, attempt, sandboxId, mode, results, nPosts,
                   nWaits, nStarts, failure>>
    /\ UNCHANGED <<brokerVars, targetVars, sessionVars>>

Stop == \E arg \in StopArgs : StopOf(arg)

\* stop() with no argument
StopDefault == StopOf("noarg")

ClientNext ==
    \/ Construct
    \/ StartCall
    \/ SandboxStarted
    \/ ConfigPost
    \/ ConfigResult
    \/ WaitDone
    \/ Exhausted
    \/ ConfigBody
    \/ CleanupDone
    \/ WsOpen
    \/ WsError
    \/ WsClose
    \/ Stop

ClientSpec == Init /\ [][ClientNext]_vars

(***************************************************************************)
(* The client: subscribe and send.                                         *)
(***************************************************************************)
\* onMessage(h): this.messageHandlers.push(handler), a handle is returned
OnMessage ==
    /\ cpc # "new"
    /\ Len(messageHandlers) < MaxHandlers
    /\ \E h \in Handlers :
        /\ messageHandlers' = Append(messageHandlers, h)
        /\ handles' = handles \cup {h}
    /\ UNCHANGED <<lastDispatch, nInbound, nSendCalls, transmitted, lastSend>>
    /\ UNCHANGED <<brokerVars, startVars, targetVars>>

\* this.messageHandlers.filter(h => h !== handler)
Unregistered(hs, h) == SelectSeq(hs, LAMBDA x : x # h)

\* the caller invokes a handle that onMessage(h) returned
Unregister ==
    /\ \E h \in handles :
        messageHandlers' = Unregistered(messageHandlers, h)
    /\ UNCHANGED <<handles, lastDispatch, nInbound, nSendCalls, transmitted,
                   lastSend>>
    /\ UNCHANGED <<brokerVars, startVars, targetVars>>

\* what arrives on the transport: an output message of some type, or data
\* that JSON.parse rejects
InboundData == {"sdk_message", "error", "garbage"}
Parses(d) == d # "garbage"

\* a dispatch that stops after the first handler
Dispatch_First(hs, type, n) ==
    [i \in 1..(IF Len(hs) > 0 THEN 1 ELSE 0) |->
        [handler |-> hs[i], type |-> type, n |-> n]]

\* this.messageHandlers.forEach(handler => handler(message))
Dispatch(hs, type, n) ==
    [i \in 1..Len(hs) |-> [handler |-> hs[i], type |-> type, n |-> n]]

\* ws.onmessage with event.data = d; the handlers return normally
ReceiveOf(d) ==
    /\ cws = "open"
    /\ nInbound < MaxInbound
    /\ nInbound' = nInbound + 1
    /\ lastDispatch' = IF Parses(d)
                       THEN Dispatch(messageHandlers, d, nInbound + 1)
                       ELSE <<>>
    /\ UNCHANGED <<messageHandlers, handles, nSendCalls, transmitted,
                   lastSend>>
    /\ UNCHANGED <<brokerVars, startVars, targetVars>>

Receive == \E d \in InboundData : ReceiveOf(d)

\* the open transport fails: the socket is closed and ws.onerror runs once
\* start() has resolved: console.error, and a reject() of the settled promise
WsErrorOpen ==
    /\ cws = "open"
    /\ cws' = "closed"
    /\ nInbound' = nInbound + 1
    /\ lastDispatch' = <<>>
    /\ UNCHANGED <<messageHandlers, handles, nSendCalls, transmitted,
                   lastSend>>
    /\ UNCHANGED <<opts, cpc, attempt, sandboxId, mode, results, nPosts,
                   nWaits, nStarts, stopReqs, nStopCalls, failure>>
    /\ UNCHANGED <<brokerVars, targetVars>>

\* a send() that only looks for a socket
CanSend_HasSocket(w) == w # "none"

\* !(!this.ws || this.ws.readyState !== WebSocket.OPEN)
CanSend(w) == w = "open"

\* the caller calls send(message)
ClientSend ==
    /\ cpc # "new"
    /\ nSendCalls < MaxSends
    /\ nSendCalls' = nSendCalls + 1
    /\ IF CanSend(cws)
       THEN /\ transmitted' = transmitted + 1
            /\ lastSend' = [ws |-> cws, pc |-> cpc, outcome |-> "sent"]
       ELSE /\ transmitted' = transmitted
            /\ lastSend' = [ws |-> cws, pc |-> cpc,
                            outcome |-> "not connected"]
    /\ UNCHANGED <<messageHandlers, handles, lastDispatch, nInbound>>
    /\ UNCHANGED <<brokerVars, startVars, targetVars>>

\* start and stop against a broker that accepts the first configuration
\* POST, with the caller subscribing and the transport delivering
SubscribeNext ==
    \/ Construct
    \/ StartCall
    \/ SandboxStarted
    \/ ConfigPost
    \/ ConfigAccepted
    \/ ConfigBody
    \/ CleanupDone
    \/ WsOpen
    \/ WsError
    \/ WsClose
    \/ StopDefault
    \/ OnMessage
    \/ Unregister
    \/ Receive
    \/ WsErrorOpen

SubscribeSpec == Init /\ [][SubscribeNext]_vars

\* the same start and stop, with the caller sending
SendNext ==
    \/ Construct
    \/ StartCall
    \/ SandboxStarted
    \/ ConfigPost
    \/ ConfigAccepted
    \/ ConfigBody
    \/ CleanupDone
    \/ WsOpen
    \/ WsError
    \/ WsClose
    \/ StopDefault
    \/ ClientSend

SendSpec == Init /\ [][SendNext]_vars

(***************************************************************************)
(* Properties of start (checked under ClientSpec).                         *)
(***************************************************************************)
Fails == Cardinality({i \in 1..Len(results) : results[i] # "ok"})

Succeeded == Len(results) > 0 /\ results[Len(results)] = "ok"

\* C9: start makes at most 5 configuration POSTs and stops at the first
\* success; after k <= 4 failures and a success it has made k + 1 attempts
\* and goes on to the token handshake; after 5 failures it makes no sixth
\* attempt, takes no fifth wait and fails with a configuration error.
C9_RetryBudget ==
    /\ nPosts <= 5
    /\ Len(results) <= nPosts
    /\ nPosts <= Len(results) + 1
    /\ \A i \in 1..(Len(results) - 1) : results[i] # "ok"
    /\ nWaits = (IF Fails < 5 THEN Fails ELSE 4)
    /\ Succeeded =>
          /\ nPosts = Fails + 1
          /\ cpc \in {"json", "connecting", "started", "cleanup", "failed"}
          /\ failure \in {"none", "noToken", "parse", "transport"}
    /\ cpc \in {"json", "connecting", "started"} => Succeeded
    /\ Fails = 5 =>
          /\ nPosts = 5
          /\ cpc \in {"exhausted", "cleanup", "failed"}
    /\ failure = "configure" <=>
          (Fails = 5 /\ cpc \in {"cleanup", "failed"})

\* four failed attempts, of both kinds, then a success: five POSTs, four
\* waits, and start has resolved
C9_Witness ==
    /\ cpc = "started"
    /\ Len(results) = 5
    /\ nPosts = 5
    /\ nWaits = 4
    /\ \E i, j \in 1..4 : results[i] = "network" /\ results[j] = "status"

\* C10: whenever start has failed after a sandbox was provisioned, a
\* stop/delete request for that sandbox has been issued.
C10_CleanupOnFailure ==
    (cpc = "failed" /\ sandboxId # NoSandbox) =>
        \E i \in 1..Len(stopReqs) :
            /\ stopReqs[i].sandboxId = sandboxId
            /\ stopReqs[i].delete = "true"

(***************************************************************************)
(* Properties of the connection modes (checked under ClientSpec).          *)
(***************************************************************************)
\* C11: with an explicit connectionUrl no request is ever sent to the
\* platform: start sends no sandbox/start request, no sandbox id is recorded,
\* the configuration POST goes to the given URL, and neither stop nor the
\* failure paths of start send a sandbox/stop request.
C11_LocalNoPlatform ==
    (cpc # "new" /\ opts.connectionUrl) =>
        /\ nStarts = 0
        /\ sandboxId = NoSandbox
        /\ stopReqs = <<>>
        /\ mode \in {"none", "local"}
        /\ configReq.url \in {"none", "connectionUrl/config"}
        /\ wsReq.url \in {"none", "connectionUrl/ws"}

\* a direct session whose configuration failed five times, after which the
\* caller called stop twice
C11_Witness ==
    /\ opts.connectionUrl
    /\ mode = "local"
    /\ failure = "configure"
    /\ nPosts = 5
    /\ nStopCalls = 2

\* C12: in platform mode the target is the proxy sub-mode (configuration
\* and transport through the platform proxy, no sandbox auth headers or
\* params) exactly when proxy use is enabled and the platform returned a
\* proxy URL; in every other case it is the direct sub-mode: the sandbox's
\* own URL, the returned auth headers on the configuration POST and the
\* returned auth params on the transport URL.
C12_SubMode ==
    mode \in {"proxy", "direct"} =>
        /\ mode = "proxy" <=> (opts.useProxy /\ platformResp.proxyUrl)
        /\ nPosts > 0 =>
              configReq =
                 IF opts.useProxy /\ platformResp.proxyUrl
                 THEN [url |-> "platform/proxy/id/config", auth |-> "none"]
                 ELSE [url |-> "sandbox/config",
                       auth |-> IF platformResp.authHeaders
                                THEN "returned" ELSE "none"]
        /\ cws # "none" =>
              wsReq =
                 IF opts.useProxy /\ platformResp.proxyUrl
                 THEN [url |-> "proxyUrl", auth |-> "none"]
                 ELSE [url |-> "sandbox/ws",
                       auth |-> IF platformResp.authParams
                                THEN "returned" ELSE "none"]

\* proxy use enabled, no proxy URL returned: a started session on the
\* sandbox's own URL that carried the returned headers and params
C12_Witness ==
    /\ cpc = "started"
    /\ opts.useProxy
    /\ ~platformResp.proxyUrl
    /\ mode = "direct"
    /\ configReq = [url |-> "sandbox/config", auth |-> "returned"]
    /\ wsReq = [url |-> "sandbox/ws", auth |-> "returned"]

(***************************************************************************)
(* Properties of stop (checked under ClientSpec).                          *)
(***************************************************************************)
\* C13: after a session with a provisioned sandbox, however often stop has
\* been called, the platform has been sent exactly one stop request for the
\* sandbox: a second stop sends none.
C13_StopOnce ==
    (cpc = "started" /\ sandboxId # NoSandbox /\ nStopCalls >= 1) =>
        Cardinality({i \in 1..Len(stopReqs) :
                        stopReqs[i].sandboxId = sandboxId}) = 1

\* C14: every stop request carries delete = true unless stop was called
\* with delete = false: so for stop(), stop({ delete: true }) and stop({}).
C14_DeleteDefault ==
    \A i \in 1..Len(stopReqs) :
        stopReqs[i].arg # "false" => stopReqs[i].delete = "true"

(***************************************************************************)
(* Properties of send (checked under SendSpec).                            *)
(***************************************************************************)
\* C15: a send call made while the transport is not open (no socket yet,
\* socket still connecting, socket closed by the peer or by stop) fails with
\* the not-connected error and transmits nothing; a send call made while it
\* is open transmits exactly once; nothing else transmits.
C15_SendGuard ==
    [][/\ nSendCalls' = nSendCalls + 1 =>
            IF cws = "open"
            THEN /\ transmitted' = transmitted + 1
                 /\ lastSend'.outcome = "sent"
            ELSE /\ transmitted' = transmitted
                 /\ lastSend'.outcome = "not connected"
       /\ nSendCalls' = nSendCalls => transmitted' = transmitted]_vars

\* one message sent on the open transport, then stop, then a send that
\* failed on the closed transport
C15_Witness ==
    /\ nStopCalls = 1
    /\ nSendCalls = 2
    /\ transmitted = 1
    /\ lastSend = [ws |-> "closed", pc |-> "started",
                   outcome |-> "not connected"]

C17_NoCredential ==
    (cpc # "new" /\ ~opts.anthropicApiKey) =>
        /\ cpc \in {"idle", "failed"}
        /\ cpc = "failed" => failure = "credential"
        /\ nStarts = 0
        /\ sandboxId = NoSandbox
        /\ nPosts = 0
        /\ configReq = NoRequest
        /\ wsReq = NoRequest
        /\ cws = "none"
        /\ stopReqs = <<>>

\* a client set up for the platform, lacking only the credential, whose
\* start has failed
C17_Witness ==
    /\ ~opts.anthropicApiKey
    /\ opts.clientId
    /\ ~opts.connectionUrl
    /\ cpc = "failed"
    /\ failure = "credential"

(***************************************************************************)
(* Repeated Configure (checked under Spec).                                *)
(***************************************************************************)
\* C18: each Configure stores a fresh unused token and leaves every stored
\* token as it was; a /ws request leaves every other token that is unused
\* and within its TTL as it was, and accepts the token it presents when that
\* token is unused and within its TTL: so each of the tokens of n Configure
\* calls is accepted once, whatever happened to the others.
C18_ConfigureKeepsTokens ==
    [][/\ issued' = issued + 1 =>
            /\ issued' \notin DOMAIN connectionTokens
            /\ issued' \in DOMAIN connectionTokens'
            /\ connectionTokens'[issued'] =
                   [createdAt |-> clock, used |-> FALSE]
            /\ \A t \in DOMAIN connectionTokens :
                   /\ t \in DOMAIN connectionTokens'
                   /\ connectionTokens'[t] = connectionTokens[t]
       /\ \A isWs \in BOOLEAN :
            IsUpgradeStep(isWs) =>
                \A t \in DOMAIN connectionTokens :
                    ValidAt(t, clock') =>
                        IF t = lastResp'.token
                        THEN /\ accepted'[t] = accepted[t] + 1
                             /\ lastResp'.status # 401
                        ELSE /\ t \in DOMAIN connectionTokens'
                             /\ connectionTokens'[t] = connectionTokens[t]
      ]_vars

\* two Configure calls, then the second token accepted, then the first: the
\* request that presented the first token was not answered 401
C18_Witness ==
    /\ issued = 2
    /\ accepted[1] = 1
    /\ accepted[2] = 1
    /\ lastResp.op = "ws"
    /\ lastResp.token = 1
    /\ lastResp.status # 401

(***************************************************************************)
(* Failure of the runtime stream (checked under OutputSpec).               *)
(***************************************************************************)
\* C19: when the runtime stream fails the failure is caught: one `error`
\* message is sent to the transport that is active at that moment, nothing
\* is sent if none is, and once the stream has ended Configure and upgrade
\* requests are still answered.
C19_StreamFailure ==
    /\ [][(streamState = "running" /\ streamState' = "ended"
              /\ Len(emitted') = Len(emitted) + 1) =>
            /\ emitted'[Len(emitted')].kind = "error"
            /\ sentLog' =
                  IF activeConnection # NoConn
                  THEN Append(sentLog, [ws |-> activeConnection,
                                        type |-> "error",
                                        n |-> Len(emitted')])
                  ELSE sentLog]_vars
    /\ [](streamState = "ended" =>
            /\ issued < MaxTokens => ENABLED Configure
            /\ (issued >= 1 /\ FreeWs # {}) => ENABLED UpgradeIssued)

\* the failure was reported to the first transport; after it a second
\* token was issued and a second transport upgraded and opened with it
C19_Witness ==
    /\ streamState = "ended"
    /\ wsState[1] = "closed"
    /\ wsState[2] = "open"
    /\ activeConnection = 2
    /\ \E i, j \in 1..Len(sentLog) :
        /\ i < j
        /\ sentLog[i] = [ws |-> 1, type |-> "error", n |-> sentLog[i].n]
        /\ sentLog[j].type = "connected"
        /\ sentLog[j].ws = 2

(***************************************************************************)
(* Failure of the open transport (checked under SubscribeSpec).            *)
(***************************************************************************)
\* C20: when the transport fails after start has resolved, every callback
\* registered at that moment is called with an `error` output message.
C20_ErrorAsData ==
    [][WsErrorOpen =>
          /\ Len(lastDispatch') = Len(messageHandlers)
          /\ \A i \in 1..Len(messageHandlers) :
                lastDispatch'[i] = [handler |-> messageHandlers[i],
                                    type |-> "error", n |-> nInbound']]_vars

(***************************************************************************)
(* Reconnection (checked under Spec).                                      *)
(***************************************************************************)
\* C21: the close of the active transport leaves the broker with no active
\* connection, the close of any other transport leaves the reference as it
\* was, and whenever there is no active connection a WebSocket request that
\* presents a valid token is upgraded, not answered 409: so after every
\* disconnect Configure followed by an upgrade succeeds again.
C21_Reconnect ==
    /\ [][\A w \in WsIds :
            (wsState[w] = "open" /\ wsState'[w] = "closed") =>
                activeConnection' =
                    IF activeConnection = w THEN NoConn
                    ELSE activeConnection]_vars
    /\ [][(activeConnection = NoConn /\ IsUpgradeStep(TRUE)
             /\ ValidAt(lastResp'.token, clock')) =>
                /\ lastResp'.status = 101
                /\ lastResp'.ws \in WsIds
                /\ wsState'[lastResp'.ws] = "upgraded"]_vars

\* the first transport has closed; the request that presented the second
\* token was upgraded and its transport is now the active connection
C21_Witness ==
    /\ wsState[1] = "closed"
    /\ wsState[2] = "open"
    /\ activeConnection = 2
    /\ accepted[1] = 1
    /\ accepted[2] = 1
    /\ lastResp = Resp("ws", 2, 101, 2)

(***************************************************************************)
(* Unregistration (checked under SubscribeSpec).                           *)
(***************************************************************************)
\* C22: invoking a handle that onMessage returned removes the registration
\* that returned it and no other: the registrations of other functions stay
\* as they were, and of the function's own registrations at most one goes,
\* so that a second registration of the same function stays.
C22_RemovesOne ==
    [][Unregister => Len(messageHandlers') >= Len(messageHandlers) - 1]_vars

(***************************************************************************)
(* What the token store retains (checked under Spec).                      *)
(***************************************************************************)
\* C23: the store never holds more than one token marked used; after a
\* validation attempt it holds no token that was older than the TTL when
\* the attempt swept the store, and the only token it can hold marked used
\* is the one the attempt presented and accepted.
C23_StoreRetains ==
    /\ [](Cardinality({t \in DOMAIN connectionTokens :
                          connectionTokens[t].used}) <= 1)
    /\ [][\A isWs \in BOOLEAN :
            IsUpgradeStep(isWs) =>
                \A t \in DOMAIN connectionTokens' :
                    /\ clock - connectionTokens'[t].createdAt
                           <= CONNECTION_TOKEN_TTL_MS
                    /\ connectionTokens'[t].used =>
                           /\ t = lastResp'.token
                           /\ accepted'[t] = accepted[t] + 1]_vars

\* after a validation the store holds the token it accepted, marked used;
\* the older token, never presented, was swept as expired
C23_Witness ==
    /\ lastResp.op = "ws"
    /\ lastResp.token = 2
    /\ DOMAIN connectionTokens = {2}
    /\ connectionTokens[2].used
    /\ accepted[1] = 0
    /\ accepted[2] = 1
    /\ clock > CONNECTION_TOKEN_TTL_MS

(***************************************************************************)
(* A token spent on a conflict (checked under Spec).                       *)
(***************************************************************************)
\* C24: a request that presents a valid token while a transport is active
\* is answered 409 and still consumes the token: the token is marked used
\* and counted as accepted; and a request that presents a token that was
\* accepted before, whether a transport is active or not, is answered 401.
C24_SpentOnConflict ==
    [][\A isWs \in BOOLEAN :
        IsUpgradeStep(isWs) =>
            /\ (activeConnection # NoConn
                   /\ ValidAt(lastResp'.token, clock')) =>
                  /\ lastResp'.status = 409
                  /\ accepted'[lastResp'.token] = 1
                  /\ connectionTokens'[lastResp'.token].used
                  /\ wsState' = wsState
            /\ (lastResp'.token # NoToken
                   /\ accepted[lastResp'.token] >= 1) =>
                  /\ lastResp'.status = 401
                  /\ accepted' = accepted]_vars

\* the second token was presented while the first transport was open: the
\* request was answered 409, no transport was upgraded for it, and the
\* token is marked used
C24_Witness ==
    /\ activeConnection = 1
    /\ wsState = <<"open", "none">>
    /\ lastResp = Resp("ws", 2, 409, NoConn)
    /\ connectionTokens[2].used
    /\ accepted[2] = 1

(***************************************************************************)
(* Both sides of the Stream Bridge: well-behaved clients connect, send     *)
(* input and disconnect while the runtime stream forwards, emits and ends. *)
(* The drain loop is taken without its idle wait and the runtime without   *)
(* stderr output; those are part of InputSpec and OutputSpec.              *)
(***************************************************************************)
BridgeNext ==
    \/ Configure
    \/ UpgradeIssued
    \/ \E ws \in WsIds : Open(ws)
    \/ \E ws \in WsIds : Close(ws)
    \/ \E ws \in WsIds : Message(ws)
    \/ Drain
    \/ Emit
    \/ StreamError
    \/ StreamDone

BridgeSpec == Init /\ [][BridgeNext]_vars

\* what the broker sent for the runtime: everything but `connected`
IsRuntimeOutput(e) == e.type # "connected"

\* C25: once the runtime stream has ended, by an error or by finishing, it
\* stays ended: no transport open starts another stream and the reference
\* is kept; input messages are still appended to the Input Queue, but none
\* is forwarded to the runtime, no runtime event is produced and nothing
\* but `connected` is sent to any transport.
C25_EndedForGood ==
    [][streamState = "ended" =>
          /\ streamState' = "ended"
          /\ streamStarts' = streamStarts
          /\ activeStream' = activeStream
          /\ activeStream # NoStream
          /\ received' = received
          /\ messageQueue' \in {messageQueue,
                                Enqueue(messageQueue, nSubmitted + 1)}
          /\ emitted' = emitted
          /\ SelectSeq(sentLog', IsRuntimeOutput)
                = SelectSeq(sentLog, IsRuntimeOutput)]_vars

\* the stream failed while the first transport was active; a second
\* transport has opened since and is the active connection; one input
\* message was forwarded before the end, one is queued, and there is still
\* the one stream start
C25_Witness ==
    /\ streamState = "ended"
    /\ streamStarts = 1
    /\ Len(emitted) >= 1
    /\ emitted[Len(emitted)] = [kind |-> "error", attached |-> 1]
    /\ wsState = <<"closed", "open">>
    /\ activeConnection = 2
    /\ received = <<1>>
    /\ messageQueue = <<2>>

====
